---- MODULE Spec2Model ----
(***************************************************************************)
(* ERCRD framework core (src/src/ercrd/core.py): the ERCRDOptimizer base   *)
(* class (trapezoidal objective, constraint stacking, optimize driver) and *)
(* the EnergyERCRD domain model with its lazily created prev_P memo.       *)
(*                                                                         *)
(* Numbers.  The code computes in floating point; the model computes in    *)
(* exact rationals carried as integers over a fixed denominator:           *)
(*   - the weights alpha, beta, gamma are numerators over WeightDen;       *)
(*   - dt = T / n_steps is never divided out: an objective value is the    *)
(*     numerator of a fraction whose denominator is CostDen(self);         *)
(*   - the 0.8 of the budget constraint is BudgetNum / BudgetDen, and a    *)
(*     constraint residual is a numerator over BudgetDen.                  *)
(* Sequences are 1-based: the code's row k (0-based) is row k + 1 here,    *)
(* the code's x[i] is x[i + 1].                                            *)
(***************************************************************************)
EXTENDS Integers, Sequences, FiniteSets

\* ------------------------------------------------------------------ bounds
\* largest discretization_steps of a constructed instance
MaxSteps == 3
\* largest num_nodes of a constructed instance
MaxNodes == 2
\* state components range over -1 .. MaxVal
MaxVal == 1
\* largest time_horizon of a constructed instance
MaxHorizon == 2

\* --------------------------------------------------------- program numbers
\* denominator of the weights: the defaults 0.4 / 0.3 / 0.3 are 4, 3, 3 over 10
WeightDen == 10
\* the budget factor 0.8 = BudgetNum / BudgetDen
BudgetNum == 4
BudgetDen == 5

VARIABLES
    self,       \* attributes set by __init__ (never reassigned afterwards)
    prev_P,     \* the attribute self.prev_P, NoMemo while it does not exist
    pc,         \* "idle", or "solving" while optimize is inside minimize
    run,        \* locals of the optimize call in progress, and its bookkeeping
    ret,        \* what the last call the caller made did and returned; it is
                \* [op |-> None] while optimize is in progress
    hist        \* history: the first num_nodes entries of the state that
                \* adaptability_term was last evaluated on, <<>> before the
                \* first evaluation

vars == <<self, prev_P, pc, run, ret, hist>>

\* hasattr(self, 'prev_P') and the attribute's value
NoMemo == [has |-> FALSE, P |-> <<>>]
Memo(P) == [has |-> TRUE, P |-> P]
NoRun == [active |-> FALSE]
None == "None"

\* ----------------------------------------------------------------- helpers
Min(a, b) == IF a <= b THEN a ELSE b

RECURSIVE SumSeq(_)
SumSeq(s) == IF s = <<>> THEN 0 ELSE s[1] + SumSeq(Tail(s))

RECURSIVE Flatten(_)
Flatten(ss) == IF ss = <<>> THEN <<>> ELSE ss[1] \o Flatten(Tail(ss))

Ok(v) == [ok |-> TRUE, val |-> v]
Raise(e) == [ok |-> FALSE, err |-> e]

\* x[:num_nodes]
PSlice(s, x) == SubSeq(x, 1, Min(s.num_nodes, Len(x)))
\* x[num_nodes:]
ThetaSlice(s, x) == SubSeq(x, s.num_nodes + 1, Len(x))

\* np.sum((P - Q) ** 2) for two vectors of the same length
SqDist(P, Q) == SumSeq([i \in 1..Len(P) |-> (P[i] - Q[i]) * (P[i] - Q[i])])

\* the state dimension of the energy model: P and theta, one each per node
StateDim(s) == 2 * s.num_nodes

\* ------------------------------------------------------ the domain model
\* Two realisations of the abstract contract (core.py:33-51):
\*   kind "energy": EnergyERCRD as written;
\*   kind "const" : a subclass of EnergyERCRD that overrides the three cost
\*                  terms to return the constant self.c (no memo), used to
\*                  exercise the quadrature weights of objective_function.
\* Every state vector the model hands to a term has at least num_nodes
\* entries, so P always has num_nodes entries and P - prev_P never has to
\* broadcast.

\* EnergyERCRD.efficiency_term: sum of a * P[i]**2 + b * P[i] + c
EnergyEfficiency(s, x) ==
    LET P == PSlice(s, x)
    IN  SumSeq([i \in 1..s.num_nodes |->
                  s.generator_costs[i][1] * P[i] * P[i]
                + s.generator_costs[i][2] * P[i]
                + s.generator_costs[i][3]])

efficiency_term(s, x) ==
    IF s.kind = "const" THEN s.c ELSE EnergyEfficiency(s, x)

\* a faulty adaptability_term: the memo is stored by the first evaluation
\* and never refreshed
EnergyAdaptability_Stale(s, memo, x) ==
    LET P == PSlice(s, x)
    IN  [val  |-> IF memo.has THEN SqDist(P, memo.P) ELSE 0,
         memo |-> IF memo.has THEN memo ELSE Memo(P)]

\* EnergyERCRD.adaptability_term: the value returned and the memo it leaves
EnergyAdaptability(s, memo, x) ==
    LET P == PSlice(s, x)
    IN  [val  |-> IF memo.has THEN SqDist(P, memo.P) ELSE 0,
         memo |-> Memo(P)]

adaptability_term(s, memo, x) ==
    IF s.kind = "const" THEN [val |-> s.c, memo |-> memo]
    ELSE EnergyAdaptability(s, memo, x)

\* the pairs (i, j), i < j, the double loop visits with a non-zero coupling
CoupledPairs(s) ==
    {p \in (1..s.num_nodes) \X (1..s.num_nodes) :
        p[1] < p[2] /\ s.line_params[p[1]][p[2]] # 0}

RECURSIVE SumPairs(_, _)
SumPairs(theta, pairs) ==
    IF pairs = {} THEN 0
    ELSE LET p == CHOOSE q \in pairs : TRUE
         IN  (theta[p[1]] - theta[p[2]]) * (theta[p[1]] - theta[p[2]])
             + SumPairs(theta, pairs \ {p})

\* EnergyERCRD.collective_efficiency_term; theta[j] past the end of theta
\* raises IndexError
EnergyCollective(s, x) ==
    LET theta == ThetaSlice(s, x)
    IN  IF \E p \in CoupledPairs(s) : p[2] > Len(theta)
        THEN Raise("IndexError")
        ELSE Ok(SumPairs(theta, CoupledPairs(s)))

collective_efficiency_term(s, x) ==
    IF s.kind = "const" THEN Ok(s.c) ELSE EnergyCollective(s, x)

\* np.sum(self.generator_costs, axis=0)[2]
SumMaxGen(s) == SumSeq([i \in 1..s.num_nodes |-> s.generator_costs[i][3]])

\* faulty constraints: the upper-bound residual with its sign reversed
constraints_UpperFlipped(s, x) ==
    LET P == PSlice(s, x)
    IN  <<BudgetDen * SumSeq(P) - BudgetNum * SumMaxGen(s)>>
        \o Flatten([i \in 1..s.num_nodes |->
              << BudgetDen * (s.generator_costs[i][3] - P[i]),
                 BudgetDen * (0 - P[i]) >>])

\* EnergyERCRD.constraints, each residual as a numerator over BudgetDen:
\* [sum(P) - 0.8 * sum(max), P[0] - max_0, -P[0], P[1] - max_1, -P[1], ...]
constraints(s, x) ==
    LET P == PSlice(s, x)
    IN  <<BudgetDen * SumSeq(P) - BudgetNum * SumMaxGen(s)>>
        \o Flatten([i \in 1..s.num_nodes |->
              << BudgetDen * (P[i] - s.generator_costs[i][3]),
                 BudgetDen * (0 - P[i]) >>])

\* number of residuals constraints returns for one state
NumResiduals(s) == 1 + 2 * s.num_nodes

\* ------------------------------------------------------- ERCRDOptimizer
\* x_flat.reshape(rows, cols): row-major, ValueError unless the sizes agree
CanReshape(v, rows, cols) == rows * cols = Len(v)
Reshape(v, rows, cols) ==
    [k \in 1..rows |-> SubSeq(v, (k - 1) * cols + 1, k * cols)]

\* a faulty tiling: np.repeat(x0, reps), every entry repeated in place
Tile_Repeat(x0, reps) ==
    Flatten([i \in 1..Len(x0) |-> [j \in 1..reps |-> x0[i]]])

\* np.tile(x0, reps)
RECURSIVE Tile(_, _)
Tile(x0, reps) == IF reps = 0 THEN <<>> ELSE x0 \o Tile(x0, reps - 1)

\* a faulty quadrature: every step weighted 1.0 (rectangle rule)
Weight2_Rectangle(s, k) == 2

\* twice the quadrature weight of the 0-based step k: 0.5 at k == 0 and at
\* k == n_steps - 1, 1.0 elsewhere
Weight2(s, k) == IF k = 0 \/ k = s.n_steps - 1 THEN 1 ELSE 2

\* the denominator of every objective value: weight, weights and dt
CostDen(s) == 2 * WeightDen * s.n_steps

\* One pass of the loop body of objective_function for the 0-based step k,
\* in the code's order: efficiency, adaptability (which rewrites the memo),
\* collective (which may raise, after the memo was rewritten).
\* The energy model ignores t = k * dt, so t is not carried.
ObjectiveStep(s, X, k, acc) ==
    LET x_k  == X[k + 1]
        eff  == s.alpha * efficiency_term(s, x_k)
        ad   == adaptability_term(s, acc.memo, x_k)
        col  == collective_efficiency_term(s, x_k)
    IN  IF ~col.ok
        THEN [acc EXCEPT !.ok = FALSE, !.err = col.err, !.memo = ad.memo,
                         !.adapt = Append(acc.adapt, ad.val)]
        ELSE [acc EXCEPT
                !.val   = acc.val + Weight2(s, k)
                            * (eff + s.beta * ad.val + s.gamma * col.val) * s.T,
                !.memo  = ad.memo,
                !.adapt = Append(acc.adapt, ad.val)]

\* a faulty loop: the steps evaluated from the last to the first
RECURSIVE ObjectiveLoop_Descending(_, _, _, _)
ObjectiveLoop_Descending(s, X, k, acc) ==
    IF k = s.n_steps \/ ~acc.ok THEN acc
    ELSE ObjectiveLoop_Descending(s, X, k + 1,
                                  ObjectiveStep(s, X, s.n_steps - 1 - k, acc))

\* the loop of objective_function from the 0-based step k on
RECURSIVE ObjectiveLoop(_, _, _, _)
ObjectiveLoop(s, X, k, acc) ==
    IF k = s.n_steps \/ ~acc.ok THEN acc
    ELSE ObjectiveLoop(s, X, k + 1, ObjectiveStep(s, X, k, acc))

\* ERCRDOptimizer.objective_function(x_flat) on an instance whose memo is
\* memo.  val is the numerator of total_cost over CostDen(s); memo is the
\* memo the call leaves; adapt lists the adaptability values in evaluation
\* order; n_states is the row width the call inferred.
objective_function(s, memo, x_flat) ==
    LET n_states == Len(x_flat) \div s.n_steps
        start == [ok |-> TRUE, err |-> None, val |-> 0, memo |-> memo,
                  adapt |-> <<>>, n_states |-> n_states]
    IN  IF ~CanReshape(x_flat, s.n_steps, n_states)
        THEN [start EXCEPT !.ok = FALSE, !.err = "ValueError"]
        ELSE ObjectiveLoop(s, Reshape(x_flat, s.n_steps, n_states), 0, start)

\* optimize.path_constraints(x_flat) with the closure variable n_states
path_constraints(s, n_states, x_flat) ==
    IF ~CanReshape(x_flat, s.n_steps, n_states)
    THEN Raise("ValueError")
    ELSE LET X == Reshape(x_flat, s.n_steps, n_states)
         IN  Ok(Flatten([k \in 1..s.n_steps |-> constraints(s, X[k])]))

\* a faulty sign adapter: the residuals handed over as they are
Negate_Forgotten(vec) == vec

\* the 'ineq' function handed to the solver: lambda x: -path_constraints(x)
Negate(vec) == [i \in 1..Len(vec) |-> 0 - vec[i]]
ineq_fun(s, n_states, x_flat) ==
    LET r == path_constraints(s, n_states, x_flat)
    IN  IF r.ok THEN Ok(Negate(r.val)) ELSE r

\* bounds = [(None, None)] * (n_states * self.n_steps)
UnboundedBounds(s, n_states) ==
    [i \in 1..(n_states * s.n_steps) |-> <<None, None>>]

\* ------------------------------------------------------------ input sets
Vals == (0 - 1)..MaxVal

ConstVec(c, w) == [i \in 1..w |-> c]

\* the vectors of length w that are constant but for at most one entry
NearConst(w) ==
    {[ConstVec(c, w) EXCEPT ![i] = v] : c \in Vals, i \in 1..w, v \in Vals}

\* the vectors of length w that are zero but for at most one entry, and
\* the constant vectors
Sparse(w) == {[ConstVec(0, w) EXCEPT ![i] = v] : i \in 1..w, v \in Vals}
Vectors(w) == Sparse(w) \cup {ConstVec(c, w) : c \in Vals}

\* the zero vector of length w and the vectors with a single 1
UnitVecs(w) == {[i \in 1..w |-> IF i = j THEN 1 ELSE 0] : j \in 0..w}

\* A caller passes well-formed states (of the state dimension) and, as
\* malformed ones, a vector one entry short and one entry long.
WrongWidths(s) == {StateDim(s) - 1, StateDim(s) + 1}
StatePool(s) ==
    Vectors(StateDim(s)) \cup {ConstVec(1, w) : w \in WrongWidths(s)}

\* Flat vectors: the unit vectors of length n_steps * d and the constant
\* vector of -1 and, as malformed ones, n_steps rows of a wrong width and
\* the lengths next to n_steps * d.
WrongLens(s) ==
    {s.n_steps * w : w \in WrongWidths(s)}
    \cup {s.n_steps * StateDim(s) - 1, s.n_steps * StateDim(s) + 1}
FlatPool(s) ==
    UnitVecs(s.n_steps * StateDim(s))
    \cup {ConstVec(0 - 1, s.n_steps * StateDim(s))}
    \cup {ConstVec(1, l) : l \in WrongLens(s)}

\* Initial states a caller hands to optimize: of the state dimension the
\* zero vector and the first and the last unit vector, and a vector of each
\* wrong width.
X0Pool(s) ==
    {[i \in 1..StateDim(s) |-> IF i = j THEN 1 ELSE 0] : j \in {0, 1, StateDim(s)}}
    \cup {ConstVec(1, w) : w \in WrongWidths(s)}

\* x with its entry i raised by one
StepAlong(x, i) == [x EXCEPT ![i] = @ + 1]

\* Points at which the solver evaluates its callbacks: the starting point,
\* one step from it along the first coordinate of each row, and one step
\* along the last coordinate.  Empty while no optimize call is in progress.
SolverPoints(r) ==
    IF ~r.active THEN {}
    ELSE {r.x0_trajectory}
         \cup {StepAlong(r.x0_trajectory, k * r.n_states + 1) :
                   k \in 0..(self.n_steps - 1)}
         \cup {StepAlong(r.x0_trajectory, Len(r.x0_trajectory))}

\* Final iterates the solver returns: the starting point, or one step from
\* it along the first or the last coordinate.
FinalPoints(r) ==
    IF ~r.active THEN {}
    ELSE {r.x0_trajectory}
         \cup {StepAlong(r.x0_trajectory, i) : i \in {1, Len(r.x0_trajectory)}}

\* ------------------------------------------------------- configurations
\* generator i has the cost triple [quadratic, linear, max_capacity]
GeneratorCosts(n) == [i \in 1..n |-> <<1, i, i % 2>>]
\* a chain: nodes i and j are coupled exactly when they are neighbours
LineParams(n) ==
    [i \in 1..n |-> [j \in 1..n |-> IF i - j = 1 \/ j - i = 1 THEN 1 ELSE 0]]

\* (alpha, beta, gamma) as numerators over WeightDen: the defaults, another
\* triple summing to 1, and one that does not
WeightChoices == {<<4, 3, 3>>, <<2, 5, 3>>, <<4, 3, 4>>}

\* ERCRDOptimizer.__init__ and EnergyERCRD.__init__
NewInstance(kind, c, n, w, T, K) ==
    [kind |-> kind, c |-> c, num_nodes |-> n,
     generator_costs |-> GeneratorCosts(n), line_params |-> LineParams(n),
     alpha |-> w[1], beta |-> w[2], gamma |-> w[3],
     T |-> T, n_steps |-> K]

\* energy models with the default weights and horizon
EnergyInstances ==
    {NewInstance("energy", 0, n, <<4, 3, 3>>, 1, K) :
        n \in 1..MaxNodes, K \in 1..MaxSteps}

\* energy models with other weights and the longest horizon
WeightedInstances ==
    {NewInstance("energy", 0, MaxNodes, <<2, 5, 3>>, MaxHorizon, K) :
        K \in 1..MaxSteps}

ConstInstances ==
    {NewInstance("const", c, 1, w, T, K) :
        c \in 0..MaxVal, w \in WeightChoices, T \in 1..MaxHorizon,
        K \in 1..MaxSteps}

Fresh ==
    /\ prev_P = NoMemo
    /\ pc = "idle"
    /\ run = NoRun
    /\ ret = [op |-> None]
    /\ hist = <<>>

\* a freshly constructed energy model
Init == self \in EnergyInstances \cup WeightedInstances /\ Fresh

\* ------------------------------------------------- calls made by the user
\* the first n entries of x, for the history (written without PSlice)
FirstN(x, n) == [j \in 1..n |-> x[j]]

\* at most 2 is remembered
Count(n) == Min(2, n)

EfficiencyTerm(x) ==
    /\ pc = "idle"
    /\ ret' = [op |-> "efficiency_term", x |-> x,
               val |-> efficiency_term(self, x)]
    /\ UNCHANGED <<self, prev_P, pc, run, hist>>

AdaptabilityTerm(x) ==
    /\ pc = "idle"
    /\ LET r == adaptability_term(self, prev_P, x)
       IN  /\ prev_P' = r.memo
           /\ ret' = [op |-> "adaptability_term", x |-> x, val |-> r.val,
                      prior |-> hist]
    /\ hist' = FirstN(x, self.num_nodes)
    /\ UNCHANGED <<self, pc, run>>

CollectiveEfficiencyTerm(x) ==
    /\ pc = "idle"
    /\ ret' = [op |-> "collective_efficiency_term", x |-> x,
               out |-> collective_efficiency_term(self, x)]
    /\ UNCHANGED <<self, prev_P, pc, run, hist>>

Constraints(x) ==
    /\ pc = "idle"
    /\ ret' = [op |-> "constraints", x |-> x, val |-> constraints(self, x)]
    /\ UNCHANGED <<self, prev_P, pc, run, hist>>

\* the history after an objective_function call that evaluated the first
\* Len(r.adapt) rows of x_flat
HistAfter(h, r, x_flat) ==
    IF r.adapt = <<>> THEN h
    ELSE FirstN(Reshape(x_flat, self.n_steps, r.n_states)[Len(r.adapt)],
                self.num_nodes)

\* A call of objective_function by the user.  repeat counts the calls on
\* this same vector made just before this one (at most 2 is remembered),
\* before holds what the latest of them returned, prior is the history
\* as the call found it.
ObjectiveFunction(x_flat) ==
    /\ pc = "idle"
    /\ LET r == objective_function(self, prev_P, x_flat)
           again == ret.op = "objective_function" /\ ret.x_flat = x_flat
       IN  /\ prev_P' = r.memo
           /\ ret' = [op |-> "objective_function", x_flat |-> x_flat,
                      out |-> r, prior |-> hist,
                      repeat |-> IF again THEN Count(ret.repeat + 1) ELSE 0,
                      before |-> IF again /\ ret.out.ok
                                 THEN <<ret.out.val>> ELSE <<>>]
           /\ hist' = HistAfter(hist, r, x_flat)
    /\ UNCHANGED <<self, pc, run>>

\* ---------------------------------------------------------------- optimize
\* optimize(x0) up to its call of minimize: the locals it builds and the
\* single solver invocation it makes.  Nothing in the code checks x0.size.
Optimize(x0) ==
    /\ pc = "idle"
    /\ pc' = "solving"
    /\ run' = [active        |-> TRUE,
               x0            |-> x0,
               n_states      |-> Len(x0),
               x0_trajectory |-> Tile(x0, self.n_steps),
               bounds        |-> UnboundedBounds(self, Len(x0)),
               solver_calls  |-> 1,
               first_adapt   |-> <<>>,
               last_cb       |-> [cb |-> None]]
    /\ ret' = [op |-> None]
    /\ UNCHANGED <<self, prev_P, hist>>

\* an exception raised inside a callback leaves minimize and optimize
Propagate(err) ==
    /\ pc' = "idle"
    /\ run' = NoRun
    /\ ret' = [op |-> "optimize", x0 |-> run.x0, raised |-> err,
               solver_calls |-> run.solver_calls]

\* the solver calls self.objective_function(x_flat)
SolverEvalObjective(x_flat) ==
    /\ pc = "solving"
    /\ LET r == objective_function(self, prev_P, x_flat)
       IN  /\ prev_P' = r.memo
           /\ hist' = HistAfter(hist, r, x_flat)
           /\ IF r.ok
              THEN /\ run' = [run EXCEPT
                                !.first_adapt =
                                    IF @ = <<>> THEN <<r.adapt[1]>> ELSE @,
                                !.last_cb = [cb |-> "fun"]]
                   /\ UNCHANGED <<pc, ret>>
              ELSE Propagate(r.err)
    /\ UNCHANGED self

\* the solver calls the 'ineq' function: lambda x: -path_constraints(x)
SolverEvalConstraints(x_flat) ==
    /\ pc = "solving"
    /\ LET r == ineq_fun(self, run.n_states, x_flat)
       IN  IF r.ok
           THEN /\ run' = [run EXCEPT !.last_cb =
                              [cb |-> "ineq", x_flat |-> x_flat, val |-> r.val]]
                /\ UNCHANGED <<pc, ret>>
           ELSE Propagate(r.err)
    /\ UNCHANGED <<self, prev_P, hist>>

\* what the solver reports besides its final iterate; fun and nit are its
\* own numbers
SolverReports ==
    { [success |-> TRUE,  message |-> "Optimization terminated successfully",
       fun |-> 0, nit |-> 1],
      [success |-> FALSE, message |-> "Iteration limit reached",
       fun |-> 1, nit |-> 2],
      [success |-> FALSE, message |-> "Inequality constraints incompatible",
       fun |-> 1, nit |-> 1] }

\* minimize returns its OptimizeResult (after at least one evaluation of the
\* objective) and optimize builds the dictionary it returns
SolverReturn(x, rep) ==
    /\ pc = "solving"
    /\ run.first_adapt # <<>>
    /\ pc' = "idle"
    /\ run' = NoRun
    /\ ret' = [op |-> "optimize", x0 |-> run.x0, raised |-> None,
               solver_calls |-> run.solver_calls,
               solver_result |-> [x |-> x, success |-> rep.success,
                                  message |-> rep.message, fun |-> rep.fun,
                                  nit |-> rep.nit],
               result |-> [success |-> rep.success,
                           optimal_trajectory |->
                               Reshape(x, self.n_steps, run.n_states),
                           final_cost |-> rep.fun,
                           nit |-> rep.nit]]
    /\ UNCHANGED <<self, prev_P, hist>>

\* -------------------------------------------------------- specifications
InitEnergy == self \in EnergyInstances /\ Fresh
InitConst == self \in ConstInstances /\ Fresh

\* constraints evaluated on an energy model
NextConstraints ==
    \E x \in NearConst(StateDim(self)) \cup StatePool(self) : Constraints(x)
SpecConstraints == InitEnergy /\ [][NextConstraints]_vars

\* adaptability_term evaluated again and again on a fresh energy model
NextAdaptability == \E x \in StatePool(self) : AdaptabilityTerm(x)
SpecAdaptability == InitEnergy /\ [][NextAdaptability]_vars

\* objective_function of a model whose three terms are constant
NextConst ==
    \E v \in {ConstVec(0, l) : l \in {self.n_steps * StateDim(self)}
                                      \cup WrongLens(self)} :
        ObjectiveFunction(v)
SpecConst == InitConst /\ [][NextConst]_vars

\* objective_function called directly, between evaluations of the terms
NextObjective ==
    \/ \E v \in FlatPool(self) : ObjectiveFunction(v)
    \/ \E x \in UnitVecs(StateDim(self)) : AdaptabilityTerm(x)
    \/ \E x \in UnitVecs(StateDim(self)) : EfficiencyTerm(x)
    \/ \E x \in UnitVecs(StateDim(self)) : CollectiveEfficiencyTerm(x)
    \/ \E x \in UnitVecs(StateDim(self)) : Constraints(x)
SpecObjective == Init /\ [][NextObjective]_vars

\* optimize runs on an energy model, one after the other
NextOptimize ==
    \/ \E x0 \in X0Pool(self) : Optimize(x0)
    \/ \E v \in SolverPoints(run) : SolverEvalObjective(v)
    \/ \E v \in SolverPoints(run) : SolverEvalConstraints(v)
    \/ \E x \in FinalPoints(run), rep \in SolverReports : SolverReturn(x, rep)
SpecOptimize == InitEnergy /\ [][NextOptimize]_vars

\* every call, in any order
Next == NextObjective \/ NextOptimize
Spec == Init /\ [][Next]_vars

\* ----------------------------------------------------------------- claims
\* entry i (1-based) of row k (0-based) of a flat vector of row width w
Entry(v, k, w, i) == v[k * w + i]
\* the first n entries of row k
RowHead(v, k, w, n) == [j \in 1..n |-> Entry(v, k, w, j)]
\* the sum of f over 1..n
RECURSIVE SumTo(_, _)
SumTo(f, n) == IF n = 0 THEN 0 ELSE f[n] + SumTo(f, n - 1)
\* squared distance of two vectors over their first n entries
Dist2(a, b, n) == SumTo([j \in 1..n |-> (a[j] - b[j]) * (a[j] - b[j])], n)

ConstCall ==
    /\ ret.op = "objective_function"
    /\ ret.out.ok
    /\ self.kind = "const"
    /\ self.alpha + self.beta + self.gamma = WeightDen

\* C1 as claimed: with three constant terms c and alpha + beta + gamma = 1,
\* objective_function returns c * dt * (K - 1) for every K >= 1, K = 1
\* included.  (total_cost = val / CostDen, dt = T / K.)
C1_AsClaimed ==
    ConstCall => ret.out.val = 2 * WeightDen * self.c * self.T * (self.n_steps - 1)

\* C1 amended: with three constant terms c and alpha + beta + gamma = 1,
\* objective_function returns c * dt * (K - 1) when K >= 2, and 0.5 * c * dt
\* when K = 1 (the single point is weighted 0.5 once).
C1_Trapezoid ==
    ConstCall =>
        ret.out.val = IF self.n_steps >= 2
                      THEN 2 * WeightDen * self.c * self.T * (self.n_steps - 1)
                      ELSE WeightDen * self.c * self.T

\* a call with an interior point and a non-zero constant
C1_Witness ==
    ConstCall /\ self.n_steps >= 3 /\ self.c > 0 /\ ret.out.val > 0

\* C2 as claimed: when optimize starts, and until the run first evaluates
\* the objective, prev_P does not exist, and the first adaptability_term
\* evaluation of every run returns 0.
C2_MemoResetPerRun ==
    pc = "solving" =>
        /\ run.first_adapt = <<>> => ~prev_P.has
        /\ run.first_adapt # <<>> => run.first_adapt[1] = 0

AdaptCall == ret.op = "adaptability_term" /\ self.kind = "energy"

\* C3: on an energy model, the first adaptability_term evaluation since
\* construction returns 0, every later one returns the sum over the first
\* num_nodes entries of the squared differences to the state evaluated just
\* before, and after every evaluation prev_P exists and equals the first
\* num_nodes entries of the state just evaluated.
C3_AdaptabilityMemo ==
    AdaptCall =>
        /\ ret.prior = <<>> => ret.val = 0
        /\ ret.prior # <<>> => ret.val = Dist2(ret.x, ret.prior, self.num_nodes)
        /\ prev_P.has
        /\ prev_P.P = [j \in 1..self.num_nodes |-> ret.x[j]]

\* a later evaluation on a state that differs from the one before it
C3_Witness ==
    AdaptCall /\ ret.prior # <<>> /\ ret.val > 1

\* C4 as claimed: the solver is only ever invoked with an x0 whose length
\* is the state dimension, and an optimize call with any other x0 has
\* raised without invoking the solver.
C4_ValidatesX0 ==
    /\ pc = "solving" => run.n_states = StateDim(self)
    /\ (ret.op = "optimize" /\ Len(ret.x0) # StateDim(self)) =>
           (ret.raised # None /\ ret.solver_calls = 0)

\* C5 as claimed: objective_function raises the shape error on every flat
\* vector whose length is not n_steps * d, and the solver's constraint
\* function never returns a value for such a vector.
C5_RejectsWrongLength ==
    /\ (ret.op = "objective_function"
          /\ Len(ret.x_flat) # self.n_steps * StateDim(self)) =>
           (~ret.out.ok /\ ret.out.err = "ValueError")
    /\ (pc = "solving" /\ run.last_cb.cb = "ineq") =>
           Len(run.last_cb.x_flat) = self.n_steps * StateDim(self)

\* C6 as claimed: when the solver reports failure, optimize returns (does
\* not raise) a result with success false, the solver's message unchanged,
\* the solver's final iterate decoded row-major, after exactly one solver
\* invocation.
C6_FailureCarriesMessage ==
    (ret.op = "optimize" /\ ret.raised = None /\ ~ret.solver_result.success) =>
        /\ ret.result.success = FALSE
        /\ ret.solver_calls = 1
        /\ \A k \in 0..(self.n_steps - 1), i \in 1..Len(ret.x0) :
              ret.result.optimal_trajectory[k + 1][i]
                  = Entry(ret.solver_result.x, k, Len(ret.x0), i)
        /\ "message" \in DOMAIN ret.result
        /\ ret.result.message = ret.solver_result.message

MaxGen(i) == self.generator_costs[i][3]
Nodes == 1..self.num_nodes

\* C7: constraints returns 1 + 2 * num_nodes residuals; the upper-bound
\* residual of node i (0-based index 1 + 2 * i) is positive whenever P[i]
\* exceeds max_i; and all residuals are <= 0 exactly when 0 <= P[i] <= max_i
\* for every i and sum(P) <= 0.8 * sum(max).
C7_SignConvention ==
    ret.op = "constraints" =>
        /\ Len(ret.val) = 1 + 2 * self.num_nodes
        /\ \A i \in Nodes : ret.x[i] > MaxGen(i) => ret.val[2 * i] > 0
        /\ (\A j \in 1..Len(ret.val) : ret.val[j] <= 0)
             <=> /\ \A i \in Nodes : 0 <= ret.x[i] /\ ret.x[i] <= MaxGen(i)
                 /\ BudgetDen * SumTo(ret.x, self.num_nodes)
                      <= BudgetNum * SumTo([i \in Nodes |-> MaxGen(i)],
                                           self.num_nodes)

\* a state over one of its upper bounds
C7_Witness ==
    ret.op = "constraints" /\ \E i \in Nodes : ret.x[i] > MaxGen(i)

IneqCall == pc = "solving" /\ run.last_cb.cb = "ineq"

\* C8: the vector the solver receives for a flat vector of n_steps rows has
\* n_steps * m entries, entry k * m + j is minus residual j of
\* constraints(row k), and it is all >= 0 exactly when every residual of
\* every row is <= 0.
C8_StackedNegated ==
    IneqCall =>
        LET v == run.last_cb.x_flat
            g == run.last_cb.val
            m == NumResiduals(self)
            w == run.n_states
            Row(k) == [i \in 1..w |-> Entry(v, k, w, i)]
            Steps == 0..(self.n_steps - 1)
        IN  /\ Len(g) = self.n_steps * m
            /\ \A k \in Steps, j \in 1..m :
                  g[k * m + j] = 0 - constraints(self, Row(k))[j]
            /\ (\A i \in 1..Len(g) : g[i] >= 0)
                 <=> (\A k \in Steps, j \in 1..m :
                         constraints(self, Row(k))[j] <= 0)

\* a constraint evaluation on several rows that are not all the same
C8_Witness ==
    IneqCall /\ self.n_steps >= 2 /\ run.last_cb.x_flat # run.x0_trajectory

\* C9: the initial guess has n_steps * len(x0) entries (n_steps * d when x0
\* has the state dimension), each of its n_steps rows equals x0, and the
\* bound list has as many entries, all (None, None).
C9_TiledGuess ==
    pc = "solving" =>
        LET w == Len(run.x0)
        IN  /\ Len(run.x0_trajectory) = self.n_steps * w
            /\ w = StateDim(self) =>
                  Len(run.x0_trajectory) = self.n_steps * StateDim(self)
            /\ \A k \in 0..(self.n_steps - 1), i \in 1..w :
                  Entry(run.x0_trajectory, k, w, i) = run.x0[i]
            /\ Len(run.bounds) = self.n_steps * w
            /\ \A i \in 1..Len(run.bounds) : run.bounds[i] = <<None, None>>

\* a run of several steps from a non-constant x0 of the state dimension
C9_Witness ==
    /\ pc = "solving"
    /\ self.n_steps >= 2
    /\ Len(run.x0) = StateDim(self)
    /\ \E i, j \in 1..Len(run.x0) : run.x0[i] # run.x0[j]

ObjCall ==
    ret.op = "objective_function" /\ ret.out.ok /\ self.kind = "energy"

\* squared distance between the P-subranges of rows a and b of the vector
\* of the last objective_function call
RowDist(a, b) ==
    LET w == ret.out.n_states
        n == self.num_nodes
    IN  Dist2(RowHead(ret.x_flat, a, w, n), RowHead(ret.x_flat, b, w, n), n)

\* C10, per call: objective_function evaluates adaptability once per step,
\* at step k >= 1 against row k - 1, at step 0 against the state of the last
\* adaptability evaluation before the call (0 if there was none); from the
\* third consecutive call on one vector the value repeats, and from the
\* second it is the value of a first call on a fresh instance plus
\* 0.5 * beta * dt * ||P(v[0]) - P(v[K-1])||^2.
C10_Call ==
    ObjCall =>
        LET K == self.n_steps
            n == self.num_nodes
            w == ret.out.n_states
            a == ret.out.adapt
        IN  /\ Len(a) = K
            /\ \A k \in 1..(K - 1) : a[k + 1] = RowDist(k, k - 1)
            /\ a[1] = IF ret.prior = <<>> THEN 0
                      ELSE Dist2(RowHead(ret.x_flat, 0, w, n), ret.prior, n)
            /\ ret.repeat >= 2 => ret.out.val = ret.before[1]
            /\ ret.repeat >= 1 =>
                  ret.out.val = objective_function(self, NoMemo, ret.x_flat).val
                                + self.beta * self.T * RowDist(0, K - 1)

\* C10, per step: a constraints, efficiency_term or
\* collective_efficiency_term evaluation leaves prev_P as it was.
C10_PureStep ==
    ret'.op \in {"constraints", "efficiency_term", "collective_efficiency_term"}
        => prev_P' = prev_P

\* C10: both parts.
C10_MemoCarriesOver == []C10_Call /\ [][C10_PureStep]_vars

\* a third consecutive call on a vector whose first and last rows differ in P
C10_Witness ==
    ObjCall /\ ret.repeat = 2 /\ self.n_steps >= 2 /\ RowDist(0, self.n_steps - 1) > 0

====
